---- MODULE Spec2Model ----
(***************************************************************************)
(* CapitalPilot: the stock-analysis workflow of main.py, a five-node       *)
(* dependency graph (data_collector -> three analysts -> report_generator  *)
(* -> END) executed over a shared state mapping.                           *)
(*                                                                         *)
(* main.py contributes the graph (nodes, edges, entry point), the fields   *)
(* each node reads and writes, and the caller analyze_stock.  The graph    *)
(* executor itself is imported (StateGraph.compile / invoke); it is        *)
(* modelled here from the written design of the engine: validate, the      *)
(* state store (snapshot / merge), the scheduler loop and its failure      *)
(* policy.  The scheduler is one thread: it launches every ready node,     *)
(* then handles one completion at a time; node functions run concurrently  *)
(* and report back through `outbox`.                                       *)
(*                                                                         *)
(* Besides the repository's graph the engine is driven over the diamond    *)
(* scenario of the design, a graph with branches of unequal depth and      *)
(* every small graph, so that statements about "every graph" are          *)
(* exercised.  run is only applied to graphs that satisfy the Graph        *)
(* invariant of the data model (WellFormed).                               *)
(***************************************************************************)
EXTENDS Integers, Sequences, FiniteSets, TLC

(* ------------------------------ bounds -------------------------------- *)
NumSymbols == 2       \* distinct ticker symbols a caller may pass
NumResponses == 2     \* distinct answers an external service may give a node
GenNodeCount == 2     \* nodes of the arbitrary (possibly cyclic) graphs
DagNodeCount == 3     \* nodes of the enumerated acyclic graphs

Symbols == 1..NumSymbols
Responses == 1..NumResponses

END == "__end__"
NoData == <<>>        \* the empty dict / "no value" placeholder

(* ------------------- the repository's graph (main.py) ------------------ *)
AnalysisState ==
    {"stock_symbol", "historical_data", "financials", "technical_analysis",
     "news", "financial_analysis", "news_analysis", "report"}

RepoNodes ==
    {"data_collector", "financial_analyst", "news_analyst",
     "report_generator", "technical_analyst"}

RepoEntry == "data_collector"

RepoEdgesNoEnd ==
    {<<"data_collector", "financial_analyst">>,
     <<"data_collector", "news_analyst">>,
     <<"data_collector", "technical_analyst">>,
     <<"financial_analyst", "report_generator">>,
     <<"news_analyst", "report_generator">>,
     <<"technical_analyst", "report_generator">>}

RepoEdgesNoFanIn ==
    {<<"data_collector", "financial_analyst">>,
     <<"data_collector", "news_analyst">>,
     <<"data_collector", "technical_analyst">>,
     <<"financial_analyst", "report_generator">>,
     <<"news_analyst", END>>,
     <<"technical_analyst", END>>,
     <<"report_generator", END>>}

RepoEdgesChained ==
    {<<"data_collector", "financial_analyst">>,
     <<"financial_analyst", "news_analyst">>,
     <<"news_analyst", "technical_analyst">>,
     <<"technical_analyst", "report_generator">>,
     <<"report_generator", END>>}

RepoEdges ==
    {<<"data_collector", "financial_analyst">>,
     <<"data_collector", "news_analyst">>,
     <<"data_collector", "technical_analyst">>,
     <<"financial_analyst", "report_generator">>,
     <<"news_analyst", "report_generator">>,
     <<"technical_analyst", "report_generator">>,
     <<"report_generator", END>>}

workflow ==
    [kind |-> "repo", nodes |-> RepoNodes, edges |-> RepoEdges,
     entry |-> RepoEntry]

(* ------------------- the diamond scenario of the design ---------------- *)
DiamondGraph ==
    [kind |-> "diamond", nodes |-> {"A", "B", "C", "D"},
     edges |-> {<<"A", "B">>, <<"A", "C">>, <<"B", "D">>, <<"C", "D">>,
                <<"D", END>>},
     entry |-> "A"]

\* two branches of unequal depth: n1 -> n2 -> END and n1 -> n3 -> n4 -> END
UnevenGraph ==
    [kind |-> "gen", nodes |-> {"n1", "n2", "n3", "n4"},
     edges |-> {<<"n1", "n2">>, <<"n1", "n3">>, <<"n2", END>>,
                <<"n3", "n4">>, <<"n4", END>>},
     entry |-> "n1"]

(* ------------------------- enumerated graphs --------------------------- *)
GenOrder == <<"n1", "n2", "n3", "n4", "n5", "n6">>
GenNodes == {GenOrder[i] : i \in 1..GenNodeCount}
DagNodes == {GenOrder[i] : i \in 1..DagNodeCount}

Idx(n) == CHOOSE i \in 1..Len(GenOrder) : GenOrder[i] = n

\* every graph over GenNodes: any edge between registered nodes (self loops
\* and cycles included) or into END, any registered entry
GenGraphs ==
    {[kind |-> "gen", nodes |-> GenNodes, edges |-> E, entry |-> e] :
        E \in SUBSET (GenNodes \X (GenNodes \cup {END})), e \in GenNodes}

\* every acyclic graph over DagNodes up to renaming: edges go forward in
\* GenOrder, the entry is the first node
DagGraphs ==
    {[kind |-> "gen", nodes |-> DagNodes, edges |-> E, entry |-> GenOrder[1]] :
        E \in SUBSET ({e \in DagNodes \X DagNodes : Idx(e[1]) < Idx(e[2])}
                      \cup (DagNodes \X {END}))}

(* ------------------------- graph bookkeeping --------------------------- *)
Preds(G, n) == {e[1] : e \in {x \in G.edges : x[2] = n}}
Succs(G, n) == {e[2] : e \in {x \in G.edges : x[1] = n}} \ {END}

RECURSIVE Reach(_, _)
\* nodes reachable from the set R along edges (R included)
Reach(G, R) ==
    LET R2 == R \cup {n \in G.nodes : Preds(G, n) \cap R # {}}
    IN  IF R2 = R THEN R ELSE Reach(G, R2)

\* transitive dependencies of n: every node with a non-empty path to n
RECURSIVE Ancestors(_, _)
Ancestors(G, S) ==
    LET S2 == S \cup UNION {Preds(G, m) : m \in S}
    IN  IF S2 = S THEN S ELSE Ancestors(G, S2)

TransDeps(G, n) == Ancestors(G, Preds(G, n))

(* ----------------------------- validate -------------------------------- *)
RECURSIVE Kahn(_, _)
\* Kahn's algorithm: repeatedly remove the nodes without an incoming edge
\* from a remaining node; what cannot be removed lies on or behind a cycle
Kahn(N, E) ==
    LET Z == {n \in N : ~ \E e \in E : e[2] = n /\ e[1] \in N}
    IN  IF Z = {} THEN N ELSE Kahn(N \ Z, E)

RECURSIVE RevReach(_, _)
\* reverse reachability from END: the nodes with a path to END
RevReach(G, R) ==
    LET R2 == R \cup {n \in G.nodes : \E e \in G.edges :
                                        e[1] = n /\ e[2] \in R \cup {END}}
    IN  IF R2 = R THEN R ELSE RevReach(G, R2)

validate(G) ==
    IF G.entry \notin G.nodes THEN "UnknownNodeError"
    ELSE IF Kahn(G.nodes, G.edges) # {} THEN "CycleError"
    ELSE IF RevReach(G, {}) # G.nodes THEN "UnreachableTerminalError"
    ELSE "ok"

\* the Graph invariant of the data model: acyclic, entry without incoming
\* edge, every node reachable from entry, every node with a path to END
WellFormed(G) ==
    /\ validate(G) = "ok"
    /\ Preds(G, G.entry) = {}
    /\ Reach(G, {G.entry}) = G.nodes

(* ----------------------------- state store ------------------------------ *)
\* dict update: every field of the delta is added or overwritten at once
merge(st, delta) ==
    [f \in DOMAIN st \cup DOMAIN delta |->
        IF f \in DOMAIN delta THEN delta[f] ELSE st[f]]

\* state.get(key, default)
Get(state, key, default) ==
    IF key \in DOMAIN state THEN state[key] ELSE default

(* ------------------------ node functions (main.py) --------------------- *)
\* the answer of the language model to a prompt: opaque, determined by the
\* prompt's inputs and by the external reply r
chat(inputs, r) == <<"reply", inputs, r>>

get_yfinance_data(symbol, r) ==
    [historical_data |-> <<"hist", symbol, r>>,
     financials      |-> <<"fin", symbol, r>>,
     news            |-> <<"news", symbol, r>>]

data_collectorNoFinancials(state, r) ==
    LET data == get_yfinance_data(state["stock_symbol"], r)
    IN  [historical_data |-> data["historical_data"],
         news            |-> data["news"]]

data_collector(state, r) ==
    LET data == get_yfinance_data(state["stock_symbol"], r)
    IN  [historical_data |-> data["historical_data"],
         financials      |-> data["financials"],
         news            |-> data["news"]]

financial_analyst(state, r) ==
    [financial_analysis |->
        chat(<<state["stock_symbol"], state["financials"]>>, r)]

news_analyst(state, r) ==
    [news_analysis |-> chat(<<state["news"], state["stock_symbol"]>>, r)]

technical_analyst(state, r) ==
    [technical_analysis |->
        chat(<<Get(state, "historical_data", NoData)>>, r)]

report_generator(state, r) ==
    [report |->
        chat(<<state["stock_symbol"], state["financial_analysis"],
               state["news_analysis"], state["technical_analysis"],
               state["historical_data"]>>, r)]

\* the fields a node looks up with state[key]; a missing one raises KeyError
Reads(kind, n) ==
    IF kind = "repo" THEN
        CASE n = "data_collector"    -> {"stock_symbol"}
          [] n = "financial_analyst" -> {"stock_symbol", "financials"}
          [] n = "news_analyst"      -> {"news", "stock_symbol"}
          [] n = "technical_analyst" -> {}
          [] n = "report_generator"  ->
                {"stock_symbol", "financial_analysis", "news_analysis",
                 "technical_analysis", "historical_data"}
    ELSE IF kind = "diamond" THEN
        CASE n = "A" -> {}
          [] n = "B" -> {"x"}
          [] n = "C" -> {"x"}
          [] n = "D" -> {"y", "z"}
    ELSE {}

\* the delta node n returns on snapshot s when the outside world answers r
NodeFn(kind, n, s, r) ==
    IF kind = "repo" THEN
        CASE n = "data_collector"    -> data_collector(s, r)
          [] n = "financial_analyst" -> financial_analyst(s, r)
          [] n = "news_analyst"      -> news_analyst(s, r)
          [] n = "technical_analyst" -> technical_analyst(s, r)
          [] n = "report_generator"  -> report_generator(s, r)
    ELSE IF kind = "diamond" THEN
        CASE n = "A" -> [x |-> 1]
          [] n = "B" -> [y |-> s["x"] + 1]
          [] n = "C" -> [z |-> s["x"] * 2]
          [] n = "D" -> [sum |-> s["y"] + s["z"]]
    ELSE (n :> 1)

\* the fields node n produces
Writes(kind, n) ==
    IF kind = "repo" THEN
        CASE n = "data_collector"    ->
                {"historical_data", "financials", "news"}
          [] n = "financial_analyst" -> {"financial_analysis"}
          [] n = "news_analyst"      -> {"news_analysis"}
          [] n = "technical_analyst" -> {"technical_analysis"}
          [] n = "report_generator"  -> {"report"}
    ELSE IF kind = "diamond" THEN
        CASE n = "A" -> {"x"}
          [] n = "B" -> {"y"}
          [] n = "C" -> {"z"}
          [] n = "D" -> {"sum"}
    ELSE {n}

(* ------------------------------- state --------------------------------- *)
VARIABLES
    g,           \* the graph built before execution
    init,        \* the initial state the caller passes to run
    ext,         \* the reply the outside world gives each node
    pc,          \* "new", "built", "rejected", "validated", "running", "returned", "done"
    status,      \* node -> Pending / Ready / Running / Completed / Failed
    indeg,       \* node -> number of unmet dependencies
    store,       \* the StateStore: field -> value
    snap,        \* node -> the snapshot it was launched with
    launched,    \* node -> had a snapshot handed out
    outbox,      \* node -> "none" / "ok" / "raise": finished, not yet handled
    starts,      \* name -> number of times it was invoked
    failedNode,  \* the first node whose failure the scheduler saw, or "none"
    inflightAtFailure, \* the nodes Running when that failure was seen
    result,      \* what run returned
    out          \* what analyze_stock did: "none", "report", "KeyError", "raised"

vars == <<g, init, ext, pc, status, indeg, store, snap, launched, outbox,
          starts, failedNode, inflightAtFailure, result, out>>

NoResult == [kind |-> "none"]

\* StateGraph(AnalysisState): a graph without nodes, edges or entry point
EmptyGraph == [kind |-> "none", nodes |-> {}, edges |-> {}, entry |-> "none"]

InitialStatus(G) ==
    [n \in G.nodes |-> IF n = G.entry THEN "Ready" ELSE "Pending"]

InDegree(G) == [n \in G.nodes |-> Cardinality(Preds(G, n))]

Init ==
    /\ g = EmptyGraph
    /\ init = <<>>
    /\ ext = <<>>
    /\ pc = "new"
    /\ status = <<>>
    /\ indeg = <<>>
    /\ store = <<>>
    /\ snap = <<>>
    /\ launched = <<>>
    /\ outbox = <<>>
    /\ starts = <<>>
    /\ failedNode = "none"
    /\ inflightAtFailure = {}
    /\ result = NoResult
    /\ out = "none"

(* ------------------------------ actions -------------------------------- *)
\* the graph G is built (add_node, add_edge, set_entry_point); a later run
\* is seeded with the initial state i0 and the outside world answers x
Build(G, i0, x) ==
    /\ g' = G
    /\ init' = i0
    /\ ext' = x
    /\ pc' = "built"
    /\ status' = InitialStatus(G)
    /\ indeg' = InDegree(G)
    /\ store' = i0
    /\ snap' = [n \in G.nodes |-> NoData]
    /\ launched' = [n \in G.nodes |-> FALSE]
    /\ outbox' = [n \in G.nodes |-> "none"]
    /\ starts' = [n \in G.nodes \cup {END} |-> 0]
    /\ UNCHANGED <<failedNode, inflightAtFailure, result, out>>

\* main.py: the graph of lines 212-227, invoked with {"stock_symbol": symbol}
BuildWorkflow ==
    /\ pc = "new"
    /\ \E symbol \in Symbols, x \in [RepoNodes -> Responses] :
        Build(workflow, [stock_symbol |-> symbol], x)

BuildDiamond ==
    /\ pc = "new"
    /\ Build(DiamondGraph, <<>>, [n \in DiamondGraph.nodes |-> 1])

BuildGen ==
    /\ pc = "new"
    /\ \E G \in GenGraphs \cup DagGraphs \cup {UnevenGraph} :
        Build(G, <<>>, [n \in G.nodes |-> 1])

\* workflow.compile(): the graph is validated once, before any execution
Validate ==
    /\ pc = "built"
    /\ pc' = IF validate(g) = "ok" THEN "validated" ELSE "rejected"
    /\ result' = IF validate(g) = "ok" THEN result
                 ELSE [kind |-> validate(g)]
    /\ UNCHANGED <<g, init, ext, status, indeg, store, snap, launched, outbox,
                   starts, failedNode, inflightAtFailure, out>>

\* run(graph, initialState) on a graph of the data model
RunStart ==
    /\ pc = "validated"
    /\ WellFormed(g)
    /\ pc' = "running"
    /\ UNCHANGED <<g, init, ext, status, indeg, store, snap, launched, outbox,
                   starts, failedNode, inflightAtFailure, result, out>>

ReadySet == {n \in g.nodes : status[n] = "Ready"}
InFlight == {n \in g.nodes : status[n] = "Running"}

\* step 3a: every node of the ready set is launched, each with a snapshot of
\* the store taken at launch
LaunchReady ==
    /\ pc = "running"
    /\ failedNode = "none"
    /\ ReadySet # {}
    /\ status' = [n \in g.nodes |->
                    IF n \in ReadySet THEN "Running" ELSE status[n]]
    /\ snap' = [n \in g.nodes |-> IF n \in ReadySet THEN store ELSE snap[n]]
    /\ launched' = [n \in g.nodes |-> launched[n] \/ n \in ReadySet]
    /\ starts' = [n \in DOMAIN starts |->
                    IF n \in ReadySet THEN starts[n] + 1 ELSE starts[n]]
    /\ UNCHANGED <<g, init, ext, pc, indeg, store, outbox, failedNode,
                   inflightAtFailure, result, out>>

\* a running node's function returns its delta
NodeReturns(n) ==
    /\ pc = "running"
    /\ status[n] = "Running"
    /\ outbox[n] = "none"
    /\ Reads(g.kind, n) \subseteq DOMAIN snap[n]
    /\ outbox' = [outbox EXCEPT ![n] = "ok"]
    /\ UNCHANGED <<g, init, ext, pc, status, indeg, store, snap, launched,
                   starts, failedNode, inflightAtFailure, result, out>>

\* a running node's function fails: a missing key, or the external call
NodeRaises(n) ==
    /\ pc = "running"
    /\ status[n] = "Running"
    /\ outbox[n] = "none"
    /\ outbox' = [outbox EXCEPT ![n] = "raise"]
    /\ UNCHANGED <<g, init, ext, pc, status, indeg, store, snap, launched,
                   starts, failedNode, inflightAtFailure, result, out>>

\* the scheduler waits for a completion only once the ready set is launched
SchedulerWaiting ==
    /\ pc = "running"
    /\ (ReadySet = {} \/ failedNode # "none")

\* step 3b: merge the delta, then decrement the in-degree of the dependents;
\* a dependent whose in-degree reaches zero joins the ready set
OnCompleted(n) ==
    /\ SchedulerWaiting
    /\ status[n] = "Running"
    /\ outbox[n] = "ok"
    /\ store' = merge(store, NodeFn(g.kind, n, snap[n], ext[n]))
    /\ indeg' = [m \in g.nodes |->
                    IF m \in Succs(g, n) THEN indeg[m] - 1 ELSE indeg[m]]
    /\ status' = [m \in g.nodes |->
                    IF m = n THEN "Completed"
                    ELSE IF m \in Succs(g, n) /\ indeg[m] = 1
                              /\ status[m] = "Pending"
                         THEN "Ready"
                    ELSE status[m]]
    /\ outbox' = [outbox EXCEPT ![n] = "none"]
    /\ UNCHANGED <<g, init, ext, pc, snap, launched, starts, failedNode,
                   inflightAtFailure, result, out>>

\* step 3c: the first failure stops the launching of new nodes
OnFailed(n) ==
    /\ SchedulerWaiting
    /\ status[n] = "Running"
    /\ outbox[n] = "raise"
    /\ status' = [status EXCEPT ![n] = "Failed"]
    /\ outbox' = [outbox EXCEPT ![n] = "none"]
    /\ failedNode' = IF failedNode = "none" THEN n ELSE failedNode
    /\ inflightAtFailure' = IF failedNode = "none" THEN InFlight \ {n}
                            ELSE inflightAtFailure
    /\ UNCHANGED <<g, init, ext, pc, indeg, store, snap, launched, starts,
                   result, out>>

\* run returns once nothing is in flight and nothing is left to launch
RunReturns ==
    /\ SchedulerWaiting
    /\ InFlight = {}
    /\ pc' = "returned"
    /\ result' = IF failedNode = "none"
                 THEN [kind |-> "ok", state |-> store]
                 ELSE [kind |-> "WorkflowError", failedNode |-> failedNode,
                       partialState |-> store]
    /\ UNCHANGED <<g, init, ext, status, indeg, store, snap, launched, outbox,
                   starts, failedNode, inflightAtFailure, out>>

\* analyze_stock: results = stock_analyzer.invoke(...); return results["report"]
analyze_stock ==
    /\ pc = "returned"
    /\ pc' = "done"
    /\ out' = IF result.kind # "ok" THEN "raised"
              ELSE IF "report" \in DOMAIN result.state THEN "report"
              ELSE "KeyError"
    /\ UNCHANGED <<g, init, ext, status, indeg, store, snap, launched, outbox,
                   starts, failedNode, inflightAtFailure, result>>

\* what happens once a graph is built: compile, invoke, the caller's lookup
Execute ==
    \/ Validate
    \/ RunStart
    \/ LaunchReady
    \/ \E n \in g.nodes : NodeReturns(n)
    \/ \E n \in g.nodes : NodeRaises(n)
    \/ \E n \in g.nodes : OnCompleted(n)
    \/ \E n \in g.nodes : OnFailed(n)
    \/ RunReturns
    \/ analyze_stock

Next ==
    \/ BuildWorkflow
    \/ BuildDiamond
    \/ BuildGen
    \/ Execute

Spec == Init /\ [][Next]_vars

TypeOK ==
    /\ pc \in {"new", "built", "rejected", "validated", "running", "returned", "done"}
    /\ \A n \in g.nodes :
          status[n] \in {"Pending", "Ready", "Running", "Completed", "Failed"}

(* ------------------------- shared vocabulary --------------------------- *)
Analysts == {"financial_analyst", "news_analyst", "technical_analyst"}
CollectorFields == {"historical_data", "financials", "news"}
AnalystFields == {"financial_analysis", "news_analysis", "technical_analysis"}

Started(n) == status[n] \in {"Running", "Completed", "Failed"}
Merged(n) == status[n] = "Completed" /\ Writes(g.kind, n) \subseteq DOMAIN store
IsRepo == g.kind = "repo"
Returned == pc \in {"returned", "done"}
WritesOf(S) == UNION {Writes(g.kind, m) : m \in S}
Descendants(n) == Reach(g, {n})

(* ----------------------------------------------------------------------- *)
(* C1: no node starts before every declared predecessor has completed and  *)
(* merged its delta (store and launch snapshot hold the predecessor's      *)
(* fields); in the repository's graph report_generator never starts until  *)
(* financial_analyst, news_analyst and technical_analyst have completed    *)
(* and merged, in every order of completion.                               *)
(* ----------------------------------------------------------------------- *)
C1_StartAfterDeps ==
    /\ \A n \in g.nodes : Started(n) =>
          \A p \in Preds(g, n) :
              /\ Merged(p)
              /\ Writes(g.kind, p) \subseteq DOMAIN snap[n]
    /\ (IsRepo /\ status["report_generator"] # "Pending") =>
          /\ \A a \in Analysts : status[a] = "Completed"
          /\ AnalystFields \subseteq DOMAIN store

C1_Witness ==
    /\ IsRepo
    /\ status["report_generator"] = "Running"
    /\ AnalystFields \subseteq DOMAIN snap["report_generator"]

(* ----------------------------------------------------------------------- *)
(* C2 as stated: a node's launch snapshot holds exactly the initial-state  *)
(* fields plus the fields merged by its transitive dependencies.           *)
(* ----------------------------------------------------------------------- *)
C2_ExactlyTransitiveDeps ==
    \A n \in g.nodes : launched[n] =>
        DOMAIN snap[n] = DOMAIN init \cup WritesOf(TransDeps(g, n))

(* ----------------------------------------------------------------------- *)
(* C2 amended: a node's launch snapshot holds the initial-state fields and *)
(* every field merged by its transitive dependencies; any further field    *)
(* was merged by a node that is neither the node itself nor one of its     *)
(* dependents.  In the repository's graph the snapshot of each analyst is  *)
(* exactly stock_symbol, historical_data, financials, news, and never      *)
(* holds financial_analysis, news_analysis, technical_analysis or report.  *)
(* ----------------------------------------------------------------------- *)
C2_SnapshotContents ==
    /\ \A n \in g.nodes : launched[n] =>
          /\ DOMAIN init \cup WritesOf(TransDeps(g, n)) \subseteq DOMAIN snap[n]
          /\ DOMAIN snap[n] \subseteq
                DOMAIN init \cup WritesOf(g.nodes \ Descendants(n))
    /\ IsRepo => \A a \in Analysts : launched[a] =>
          DOMAIN snap[a] = {"stock_symbol"} \cup CollectorFields

C2_Witness ==
    /\ IsRepo
    /\ launched["financial_analyst"]
    /\ status["news_analyst"] = "Completed"
    /\ status["financial_analyst"] = "Running"

(* ----------------------------------------------------------------------- *)
(* C3: if a node fails, no node that depends on it is ever started, and    *)
(* run returns a WorkflowError whose partialState holds the fields of the  *)
(* nodes that completed and no field of a dependent of the failed node; in *)
(* the repository's graph a failed analyst means report_generator never    *)
(* runs and the state handed back has no report field.                     *)
(* ----------------------------------------------------------------------- *)
C3_FailurePropagation ==
    /\ \A b \in g.nodes : status[b] = "Failed" =>
          \A c \in Descendants(b) \ {b} :
              /\ ~ Started(c)
              /\ starts[c] = 0
              /\ Writes(g.kind, c) \cap DOMAIN store = {}
    /\ (Returned /\ \E b \in g.nodes : status[b] = "Failed") =>
          /\ result.kind = "WorkflowError"
          /\ status[result.failedNode] = "Failed"
          /\ \A m \in g.nodes : status[m] = "Completed" =>
                Writes(g.kind, m) \subseteq DOMAIN result.partialState
          /\ \A c \in Descendants(result.failedNode) :
                Writes(g.kind, c) \cap DOMAIN result.partialState = {}
          /\ out # "report"
    /\ (IsRepo /\ \E a \in Analysts : status[a] = "Failed") =>
          /\ status["report_generator"] = "Pending"
          /\ starts["report_generator"] = 0
          /\ "report" \notin DOMAIN store
          /\ Returned => "report" \notin DOMAIN result.partialState

C3_Witness ==
    /\ IsRepo
    /\ pc = "done"
    /\ status["news_analyst"] = "Failed"
    /\ status["financial_analyst"] = "Completed"
    /\ result.kind = "WorkflowError"
    /\ out = "raised"

(* ----------------------------------------------------------------------- *)
(* C4: when no node fails the final state does not depend on the           *)
(* interleaving of independent branches: the diamond returns exactly       *)
(* {x:1, y:2, z:2, sum:4}; the repository's graph has the same shape with  *)
(* three middle branches and returns the state obtained by applying        *)
(* data_collector, the three analysts and report_generator in sequence.    *)
(* ----------------------------------------------------------------------- *)
RepoSequential(i0, x) ==
    LET s1 == merge(i0, data_collector(i0, x["data_collector"]))
        s2 == merge(s1, financial_analyst(s1, x["financial_analyst"]))
        s3 == merge(s2, news_analyst(s1, x["news_analyst"]))
        s4 == merge(s3, technical_analyst(s1, x["technical_analyst"]))
    IN  merge(s4, report_generator(s4, x["report_generator"]))

C4_FinalStateConfluent ==
    /\ (g.kind = "diamond" /\ Returned /\ result.kind = "ok") =>
          result.state = [x |-> 1, y |-> 2, z |-> 2, sum |-> 4]
    /\ (g.kind = "gen" /\ Returned /\ result.kind = "ok") =>
          result.state = [n \in g.nodes |-> 1]
    /\ IsRepo =>
          /\ Succs(g, g.entry) = Analysts
          /\ \A a \in Analysts :
                /\ Preds(g, a) = {g.entry}
                /\ Succs(g, a) = {"report_generator"}
          /\ Preds(g, END) = {"report_generator"}
          /\ (Returned /\ result.kind = "ok") =>
                result.state = RepoSequential(init, ext)

C4_Witness ==
    /\ g.kind = "diamond"
    /\ Returned
    /\ result.kind = "ok"
    /\ result.state["sum"] = 4

(* ----------------------------------------------------------------------- *)
(* C5: a delta is merged in one step: the store, every launch snapshot and *)
(* the returned state hold either all fields of a node's delta or none,    *)
(* and hold none for a node that has not completed; no snapshot holds a    *)
(* proper non-empty subset of historical_data, financials, news.           *)
(* ----------------------------------------------------------------------- *)
AllOrNone(s) ==
    /\ \A n \in g.nodes :
          /\ Writes(g.kind, n) \cap DOMAIN s \in {{}, Writes(g.kind, n)}
          /\ Writes(g.kind, n) \cap DOMAIN s # {} => status[n] = "Completed"
    /\ IsRepo => CollectorFields \cap DOMAIN s \in {{}, CollectorFields}

C5_AtomicMerge ==
    /\ AllOrNone(store)
    /\ \A n \in g.nodes : launched[n] => AllOrNone(snap[n])
    /\ result.kind = "ok" => AllOrNone(result.state)
    /\ result.kind = "WorkflowError" => AllOrNone(result.partialState)

C5_Witness ==
    /\ IsRepo
    /\ launched["news_analyst"]
    /\ CollectorFields \subseteq DOMAIN snap["news_analyst"]
    /\ status["news_analyst"] = "Running"

(* ----------------------------------------------------------------------- *)
(* C6: fan-out: every direct dependent of a node observes that node's      *)
(* delta in its launch snapshot, and dependents with the same              *)
(* dependencies are launched together, none waiting for another to         *)
(* complete; in the repository's graph the three analysts start together   *)
(* once data_collector has merged, each seeing its three fields.           *)
(* ----------------------------------------------------------------------- *)
C6_FanOut ==
    /\ \A n \in g.nodes : launched[n] =>
          \A p \in Preds(g, n) : Writes(g.kind, p) \subseteq DOMAIN snap[n]
    /\ \A c1, c2 \in g.nodes :
          (Preds(g, c1) = Preds(g, c2) /\ c1 # g.entry /\ c2 # g.entry) =>
              /\ Started(c1) <=> Started(c2)
              /\ launched[c1] =>
                    Writes(g.kind, c2) \cap DOMAIN snap[c1] = {}
    /\ IsRepo =>
          /\ \A a, b \in Analysts : Started(a) <=> Started(b)
          /\ \A a \in Analysts : launched[a] =>
                /\ CollectorFields \subseteq DOMAIN snap[a]
                /\ AnalystFields \cap DOMAIN snap[a] = {}

C6_Witness ==
    /\ IsRepo
    /\ \A a \in Analysts :
          /\ status[a] = "Running"
          /\ outbox[a] = "none"
          /\ CollectorFields \subseteq DOMAIN snap[a]

(* ----------------------------------------------------------------------- *)
(* C7: for a graph with a registered entry node validate succeeds iff the  *)
(* graph is acyclic and every registered node has a path to END; a graph   *)
(* with a 2-cycle is rejected with CycleError, an acyclic graph with a     *)
(* node that has no path to END with UnreachableTerminalError; the         *)
(* repository's graph (five nodes, entry data_collector, seven edges       *)
(* ending at END) passes.  Paths are computed here by transitive closure,  *)
(* independently of the validator's algorithm.                             *)
(* ----------------------------------------------------------------------- *)
RECURSIVE Closure(_, _)
Closure(R, S) ==
    IF S = {} THEN R
    ELSE LET k == CHOOSE x \in S : TRUE
             R2 == R \cup {<<e1[1], e2[2]>> : e1 \in {e \in R : e[2] = k},
                                             e2 \in {e \in R : e[1] = k}}
         IN  Closure(R2, S \ {k})

Paths(G) == Closure(G.edges, G.nodes)
Acyclic(G) == \A n \in G.nodes : <<n, n>> \notin Paths(G)
AllReachEnd(G) == \A n \in G.nodes : <<n, END>> \in Paths(G)
HasTwoCycle(G) ==
    \E a, b \in G.nodes : a # b /\ <<a, b>> \in G.edges /\ <<b, a>> \in G.edges

C7_Validate ==
    pc \notin {"new", "built"} =>
        /\ g.entry \in g.nodes
        /\ pc # "rejected" <=> (Acyclic(g) /\ AllReachEnd(g))
        /\ HasTwoCycle(g) => (pc = "rejected" /\ result.kind = "CycleError")
        /\ (Acyclic(g) /\ ~ AllReachEnd(g)) =>
              (pc = "rejected" /\ result.kind = "UnreachableTerminalError")
        /\ IsRepo =>
              /\ pc # "rejected"
              /\ Cardinality(g.nodes) = 5
              /\ Cardinality(g.edges) = 7
              /\ g.entry = "data_collector"
              /\ \E e \in g.edges : e[2] = END

C7_Witness ==
    /\ g.kind = "gen"
    /\ HasTwoCycle(g)
    /\ pc = "rejected"
    /\ result.kind = "CycleError"

(* ----------------------------------------------------------------------- *)
(* C8: once the scheduler has seen the first node failure it launches no   *)
(* further node; the nodes Running at that moment are not cancelled, each  *)
(* finishes as Completed or Failed before run returns; run then returns    *)
(* the WorkflowError, whose partialState holds the deltas of the in-flight *)
(* nodes that completed.  In the repository's graph report_generator is    *)
(* still Pending when an analyst's failure is seen, and stays so.          *)
(* ----------------------------------------------------------------------- *)
C8_NoLaunchAfterFailure ==
    failedNode # "none" =>
        \A n \in g.nodes : status'[n] = "Running" => status[n] = "Running"

C8_InFlightFinish ==
    /\ failedNode # "none" =>
          /\ status[failedNode] = "Failed"
          /\ \A n \in inflightAtFailure :
                status[n] \in {"Running", "Completed", "Failed"}
          /\ (IsRepo /\ failedNode \in Analysts) =>
                /\ status["report_generator"] = "Pending"
                /\ inflightAtFailure \subseteq Analysts
    /\ Returned =>
          /\ InFlight = {}
          /\ \A n \in g.nodes : outbox[n] = "none"
          /\ failedNode # "none" =>
                /\ result.kind = "WorkflowError"
                /\ result.failedNode = failedNode
                /\ result.partialState = store
                /\ \A n \in inflightAtFailure :
                      /\ status[n] \in {"Completed", "Failed"}
                      /\ status[n] = "Completed" =>
                            Writes(g.kind, n) \subseteq
                                DOMAIN result.partialState

C8_FailurePolicy ==
    [] C8_InFlightFinish /\ [][C8_NoLaunchAfterFailure]_vars

C8_Witness ==
    /\ IsRepo
    /\ Returned
    /\ failedNode = "financial_analyst"
    /\ inflightAtFailure = {"news_analyst", "technical_analyst"}
    /\ status["news_analyst"] = "Completed"
    /\ "news_analysis" \in DOMAIN result.partialState

(* ----------------------------------------------------------------------- *)
(* C9: if no node fails and every launched node eventually finishes, run   *)
(* on a validated graph eventually returns the final state; it does so     *)
(* only after every predecessor of END has completed and merged            *)
(* (report_generator in the repository's graph); every node has by then    *)
(* gone Pending -> Ready -> Running -> Completed exactly once; END is      *)
(* never executed.                                                         *)
(* ----------------------------------------------------------------------- *)
StatusOrder ==
    {<<"Pending", "Ready">>, <<"Ready", "Running">>,
     <<"Running", "Completed">>, <<"Running", "Failed">>}

C9_Lifecycle ==
    \A n \in g.nodes :
        status'[n] # status[n] => <<status[n], status'[n]>> \in StatusOrder

NoFailure == \A n \in g.nodes : status[n] # "Failed" /\ outbox[n] # "raise"

C9_FinalState ==
    /\ pc # "new" => starts[END] = 0
    /\ \A n \in g.nodes : starts[n] <= 1
    /\ (Returned /\ NoFailure) =>
          /\ result.kind = "ok"
          /\ result.state = store
          /\ \A n \in g.nodes : status[n] = "Completed" /\ starts[n] = 1
          /\ \A p \in Preds(g, END) : Merged(p)
          /\ IsRepo =>
                /\ Preds(g, END) = {"report_generator"}
                /\ "report" \in DOMAIN result.state
    /\ result.kind = "ok" => NoFailure

C9_Terminates ==
    /\ [] C9_FinalState
    /\ [][C9_Lifecycle]_vars
    /\ (pc = "running") ~> (Returned \/ ~ NoFailure)
    /\ IsRepo ~> (Returned \/ ~ NoFailure)

C9_Witness ==
    /\ IsRepo
    /\ pc = "done"
    /\ result.kind = "ok"
    /\ out = "report"
    /\ \A n \in g.nodes : status[n] = "Completed" /\ starts[n] = 1

(* ----------------------------------------------------------------------- *)
(* C10: seeded with stock_symbol only, every field a node of the           *)
(* repository's graph reads by mandatory lookup is in its launch snapshot, *)
(* in every interleaving of the analysts; a successful run's final state   *)
(* holds report, so results["report"] in analyze_stock finds the field.    *)
(* ----------------------------------------------------------------------- *)
C10_MandatoryReads ==
    IsRepo =>
        /\ DOMAIN init = {"stock_symbol"}
        /\ launched["data_collector"] =>
              "stock_symbol" \in DOMAIN snap["data_collector"]
        /\ launched["financial_analyst"] =>
              {"stock_symbol", "financials"} \subseteq
                  DOMAIN snap["financial_analyst"]
        /\ launched["news_analyst"] =>
              {"stock_symbol", "news"} \subseteq DOMAIN snap["news_analyst"]
        /\ launched["report_generator"] =>
              {"stock_symbol", "financial_analysis", "news_analysis",
               "technical_analysis", "historical_data"} \subseteq
                  DOMAIN snap["report_generator"]
        /\ \A n \in g.nodes : launched[n] =>
              Reads("repo", n) \subseteq DOMAIN snap[n]
        /\ result.kind = "ok" => "report" \in DOMAIN result.state
        /\ out # "KeyError"

C10_Witness ==
    /\ IsRepo
    /\ launched["report_generator"]
    /\ outbox["report_generator"] = "ok"
    /\ "historical_data" \in DOMAIN snap["report_generator"]

(* ------------------------- fair specification -------------------------- *)
\* the process is not halted: once a graph is built, while the scheduler or
\* a launched node can take a step, a step is eventually taken
Fairness == WF_vars(Execute)

FairSpec == Init /\ [][Next]_vars /\ Fairness

====
